---- MODULE Spec2Model ----
(***************************************************************************)
(* Model of src/remote.go (package gps): import path deduction.            *)
(*                                                                         *)
(* Strings are sequences of lexical tokens: a token is either one of the   *)
(* punctuation characters in Punct or a maximal run of letters and digits  *)
(* (a "word").  "gopkg.in/yaml.v2" is <<"gopkg",".","in","/","yaml",".",   *)
(* "v2">>.  Concatenation is \o, the empty string is <<>>.  URL schemes    *)
(* and user names are kept as single atomic strings.  Go's nil error is    *)
(* the string "nil".                                                       *)
(***************************************************************************)
EXTENDS Integers, Sequences, FiniteSets, TLC

\* ------------------------------------------------------------------------
\* Lexical classes
\* ------------------------------------------------------------------------
Punct == {"/", ".", ":", "@", "-", "_", "~", "%"}
\* words of the vocabulary that contain an upper-case letter
UpperWords == {"Repo"}
\* words of the vocabulary that are decimal numbers ("0" or [1-9][0-9]*)
NumWords == {"0", "2"}
\* words of the vocabulary that match v0|v[1-9][0-9]*
VerWords == {"v0", "v1", "v2"}
\* words of the vocabulary that are one character long
OneCharWords == {"0", "2"}

IsWord(t) == t \notin Punct
\* [a-zA-Z] as the first character of a word
LetterFirst(t) == IsWord(t) /\ t \notin NumWords
\* A character class is [punct, upper]: the punctuation characters it holds
\* and whether it holds upper-case letters; every class here holds the
\* lower-case letters and the digits.
In(t, cls) == IF t \in Punct THEN t \in cls.punct ELSE (cls.upper \/ t \notin UpperWords)
\* [A-Za-z0-9_.\-]
ClsSeg == [punct |-> {"_", ".", "-"}, upper |-> TRUE]
\* [-a-zA-Z0-9]
ClsDash == [punct |-> {"-"}, upper |-> TRUE]
\* [-.a-zA-Z0-9]
ClsDashDot == [punct |-> {"-", "."}, upper |-> TRUE]
\* [a-z0-9]
ClsLower == [punct |-> {}, upper |-> FALSE]
\* [a-z0-9.\-]
ClsLowerDot == [punct |-> {".", "-"}, upper |-> FALSE]
\* [a-z0-9_.\-]
ClsLowerSeg == [punct |-> {"_", ".", "-"}, upper |-> FALSE]
\* [A-Za-z0-9_.\-/~]
ClsRepo == [punct |-> {"_", ".", "-", "/", "~"}, upper |-> TRUE]
\* [A-Za-z0-9-_.~]
ClsPath == [punct |-> {"-", "_", ".", "~"}, upper |-> TRUE]
\* [a-zA-Z0-9._-]
ClsHost == [punct |-> {".", "_", "-"}, upper |-> TRUE]

\* ------------------------------------------------------------------------
\* package strings
\* ------------------------------------------------------------------------
HasPrefix(s, p) == Len(p) <= Len(s) /\ SubSeq(s, 1, Len(p)) = p
HasSuffix(s, p) == Len(p) <= Len(s) /\ SubSeq(s, Len(s) - Len(p) + 1, Len(s)) = p
TrimPrefix(s, p) == IF HasPrefix(s, p) THEN SubSeq(s, Len(p) + 1, Len(s)) ELSE s
Contains(s, t) == \E i \in 1..Len(s) : s[i] = t
\* 1-based index of the first t in s, 0 when absent
Index(s, t) ==
    IF Contains(s, t)
    THEN CHOOSE i \in 1..Len(s) : s[i] = t /\ \A j \in 1..(i - 1) : s[j] # t
    ELSE 0
From(s, i) == SubSeq(s, i, Len(s))
\* strings.SplitN(s, "/", 2)
SplitN2(s) ==
    IF Contains(s, "/")
    THEN <<SubSeq(s, 1, Index(s, "/") - 1), From(s, Index(s, "/") + 1)>>
    ELSE <<s>>

RECURSIVE Split(_)
\* the "/"-separated segments of s
Split(s) ==
    IF ~Contains(s, "/") THEN <<s>>
    ELSE <<SubSeq(s, 1, Index(s, "/") - 1)>> \o Split(From(s, Index(s, "/") + 1))

RECURSIVE Join(_)
Join(segs) ==
    IF Len(segs) = 0 THEN <<>>
    ELSE IF Len(segs) = 1 THEN segs[1]
    ELSE segs[1] \o <<"/">> \o Join(Tail(segs))

RECURSIVE SubPath(_)
\* the text of segments as a sub-path: "/a/b"
SubPath(segs) ==
    IF Len(segs) = 0 THEN <<>> ELSE <<"/">> \o segs[1] \o SubPath(Tail(segs))

All(s, cls) == \A i \in 1..Len(s) : In(s[i], cls)
\* a non-empty segment over one character class: [cls]+
Seg(s, cls) == Len(s) > 0 /\ All(s, cls)
\* (?:/[cls]+)* over the segments i.. of segs
Segs(segs, i, cls) == \A k \in i..Len(segs) : Seg(segs[k], cls)

\* length of the longest prefix of s over the class: greedy [cls]*
RunLen(s, cls) ==
    CHOOSE k \in 0..Len(s) :
        /\ \A i \in 1..k : In(s[i], cls)
        /\ (k = Len(s) \/ ~In(s[k + 1], cls))

\* ------------------------------------------------------------------------
\* SchemeSets (remote.go:29-34) and validateVCSScheme
\* ------------------------------------------------------------------------
gitSchemes == <<"https", "ssh", "git", "http">>
bzrSchemes == <<"https", "bzr+ssh", "bzr", "http">>
hgSchemes == <<"https", "ssh", "http">>
svnSchemes == <<"https", "http", "svn", "svn+ssh">>

Range(s) == {s[i] : i \in 1..Len(s)}

SchemesOf(typ) ==
    CASE typ = "git" -> gitSchemes
      [] typ = "bzr" -> bzrSchemes
      [] typ = "hg" -> hgSchemes
      [] typ = "svn" -> svnSchemes

validateVCSScheme(scheme, typ) == scheme \in Range(SchemesOf(typ))

\* ------------------------------------------------------------------------
\* The regular expressions (remote.go:60-82).  A match is the sequence of
\* submatches v with Go's v[k] at position k+1; no match (nil) is <<>>.
\* Every pattern fixes the "/" positions, so a match is decided segment by
\* segment on Split(path).
\* ------------------------------------------------------------------------
NoMatch == <<>>
V(v, k) == v[k + 1]

\* [A-Za-z0-9][-A-Za-z0-9]*[A-Za-z0-9]
GhUser(s) ==
    /\ Len(s) > 0 /\ All(s, ClsDash)
    /\ IsWord(s[1]) /\ IsWord(s[Len(s)])
    /\ ~(Len(s) = 1 /\ s[1] \in OneCharWords)

\* the submatches of a pattern host/(a/b)(/sub)* whose root is the first n
\* segments g[1..n] and whose second group is g[2..n]
RootMatch(path, g, n) ==
    <<path, Join(SubSeq(g, 1, n)), Join(SubSeq(g, 2, n)), SubPath(From(g, n + 1))>>

GhMatch(path, g) ==
    IF /\ Len(g) >= 3
       /\ g[1] = <<"github", ".", "com">>
       /\ GhUser(g[2])
       /\ Seg(g[3], ClsSeg)
       /\ Segs(g, 4, ClsSeg)
    THEN RootMatch(path, g, 3)
    ELSE NoMatch
ghRegex(path) == GhMatch(path, Split(path))

BbMatch(path, g) ==
    IF /\ Len(g) >= 3
       /\ g[1] = <<"bitbucket", ".", "org">>
       /\ Seg(g[2], ClsSeg)
       /\ Seg(g[3], ClsSeg)
       /\ Segs(g, 4, ClsSeg)
    THEN RootMatch(path, g, 3)
    ELSE NoMatch
bbRegex(path) == BbMatch(path, Split(path))

\* [a-zA-Z0-9][-a-zA-Z0-9]+ : the optional user segment of gopkg.in
GpinUser(s) ==
    /\ Len(s) > 0 /\ All(s, ClsDash) /\ IsWord(s[1])
    /\ ~(Len(s) = 1 /\ s[1] \in OneCharWords)

\* whether r has "." and a number at positions k, k+1
GpinDot(r, k) == Len(r) >= k + 1 /\ r[k] = "." /\ r[k + 1] \in NumWords
\* the length of r's prefix matching (v0|v[1-9][0-9]*)(\.0|\.[1-9][0-9]*){0,2}
GpinNumLen(r) == IF GpinDot(r, 2) THEN (IF GpinDot(r, 4) THEN 5 ELSE 3) ELSE 1
GpinUnstable(r, n) == Len(r) >= n + 2 /\ r[n + 1] = "-" /\ r[n + 2] = "unstable"
\* the length of r's prefix matching
\* (v0|v[1-9][0-9]*)(\.0|\.[1-9][0-9]*){0,2}(-unstable)? , 0 when none;
\* the quantifiers are greedy
GpinVerLen(r) ==
    IF Len(r) = 0 \/ r[1] \notin VerWords THEN 0
    ELSE IF GpinUnstable(r, GpinNumLen(r)) THEN GpinNumLen(r) + 2
    ELSE GpinNumLen(r)

\* whether r is a version followed by an optional ".git"
GpinTail(r, n) == n > 0 /\ From(r, n + 1) \in {<<>>, <<".", "git">>}

\* whether segment s splits at its i-th token (a ".") into name, version and
\* an optional ".git"
GpinSplitAt(s, i) ==
    /\ 1 < i /\ i < Len(s) /\ s[i] = "."
    /\ LetterFirst(s[1]) /\ All(SubSeq(s, 1, i - 1), ClsDashDot)
    /\ GpinTail(From(s, i + 1), GpinVerLen(From(s, i + 1)))

GpinPkg(s) == \E i \in 1..Len(s) : GpinSplitAt(s, i)
\* the name is greedy: the last split that matches
GpinSplit(s) ==
    CHOOSE i \in 1..Len(s) :
        GpinSplitAt(s, i) /\ \A j \in (i + 1)..Len(s) : ~GpinSplitAt(s, j)

\* /[a-zA-Z0-9][-.a-zA-Z0-9]*
GpinSub(s) == Len(s) > 0 /\ IsWord(s[1]) /\ All(s, ClsDashDot)

\* the submatches when the package segment is g[p], split at its i-th
\* token, with version ver
GpinGroups(path, g, p, i, ver) ==
    <<path,
      Join(SubSeq(g, 1, p)),
      IF p = 3 THEN g[2] ELSE <<>>,
      SubSeq(g[p], 1, i - 1),
      ver,
      IF HasSuffix(ver, <<"-", "unstable">>) THEN <<"-", "unstable">> ELSE <<>>,
      SubPath(From(g, p + 1))>>
GpinAt(path, g, p, i) ==
    GpinGroups(path, g, p, i,
               SubSeq(g[p], i + 1, i + GpinVerLen(From(g[p], i + 1))))

GpinWithUser(g) ==
    /\ Len(g) >= 3 /\ GpinUser(g[2]) /\ GpinPkg(g[3])
    /\ \A k \in 4..Len(g) : GpinSub(g[k])
GpinNoUser(g) ==
    /\ Len(g) >= 2 /\ GpinPkg(g[2])
    /\ \A k \in 3..Len(g) : GpinSub(g[k])

GpinMatch(path, g) ==
    IF Len(g) = 0 \/ g[1] # <<"gopkg", ".", "in">> THEN NoMatch
    \* the optional user group is tried first
    ELSE IF GpinWithUser(g) THEN GpinAt(path, g, 3, GpinSplit(g[3]))
    ELSE IF GpinNoUser(g) THEN GpinAt(path, g, 2, GpinSplit(g[2]))
    ELSE NoMatch
gpinNewRegex(path) == GpinMatch(path, Split(path))

\* how many leading segments of g the group ((?:/[A-Za-z0-9_.\-]+)*)? takes:
\* whole segments over the class, then the class prefix of the next one
LpSubCount(g) ==
    CHOOSE k \in 0..Len(g) :
        /\ \A j \in 1..k : RunLen(g[j], ClsSeg) > 0
        /\ \A j \in 1..(k - 1) : RunLen(g[j], ClsSeg) = Len(g[j])
        /\ \/ k = Len(g)
           \/ (k > 0 /\ RunLen(g[k], ClsSeg) < Len(g[k]))
           \/ RunLen(g[k + 1], ClsSeg) = 0
LpSubText(g, m) ==
    IF m = 0 THEN <<>>
    ELSE SubPath(SubSeq(g, 1, m - 1)) \o <<"/">> \o SubSeq(g[m], 1, RunLen(g[m], ClsSeg))
LpSub(after) ==
    IF HasPrefix(after, <<"/">>)
    THEN LpSubText(Split(Tail(after)), LpSubCount(Split(Tail(after))))
    ELSE <<>>

LpGroups(root, name, sub) == <<root \o sub, root, name, sub>>
\* rest: the path after "launchpad.net/"; n: the length of [A-Za-z0-9-._]+
LpMatch(rest, n) ==
    IF n = 0 THEN NoMatch
    ELSE LpGroups(<<"launchpad", ".", "net", "/">> \o SubSeq(rest, 1, n),
                  SubSeq(rest, 1, n), LpSub(From(rest, n + 1)))
LpRest(path, rest) == LpMatch(rest, RunLen(rest, ClsSeg))
\* lpRegex has no "$": it matches a prefix of the path
lpRegex(path) ==
    IF HasPrefix(path, <<"launchpad", ".", "net", "/">>)
    THEN LpRest(path, TrimPrefix(path, <<"launchpad", ".", "net", "/">>))
    ELSE NoMatch

GlpMatch(path, g) ==
    IF /\ Len(g) >= 2
       /\ g[1] = <<"git", ".", "launchpad", ".", "net">>
       /\ Seg(g[2], ClsSeg)
       /\ Segs(g, 3, ClsSeg)
    THEN RootMatch(path, g, 2)
    ELSE NoMatch
glpRegex(path) == GlpMatch(path, Split(path))

JazzMatch(path, g) ==
    IF /\ Len(g) >= 4
       /\ g[1] = <<"hub", ".", "jazz", ".", "net">>
       /\ g[2] = <<"git">>
       /\ Seg(g[3], ClsLower)
       /\ Seg(g[4], ClsSeg)
       /\ Segs(g, 5, ClsSeg)
    THEN RootMatch(path, g, 4)
    ELSE NoMatch
jazzRegex(path) == JazzMatch(path, Split(path))

ApacheMatch(path, g) ==
    IF /\ Len(g) >= 2
       /\ g[1] = <<"git", ".", "apache", ".", "org">>
       \* [a-z0-9_.\-]+\.git
       /\ Len(g[2]) >= 3 /\ All(g[2], ClsLowerSeg) /\ HasSuffix(g[2], <<".", "git">>)
       /\ Segs(g, 3, ClsSeg)
    THEN RootMatch(path, g, 2)
    ELSE NoMatch
apacheRegex(path) == ApacheMatch(path, Split(path))

VCSExts == {"bzr", "git", "hg", "svn"}

\* the length of the port part (:[0-9]+)? at the end of h
ExtHostPort(h) ==
    IF Len(h) >= 2 /\ h[Len(h) - 1] = ":" /\ h[Len(h)] \in NumWords THEN 2 ELSE 0
\* ([a-z0-9.\-]+\.)+[a-z0-9.\-]+
ExtHostName(d) ==
    /\ Len(d) >= 3 /\ All(d, ClsLowerDot)
    /\ \E i \in 2..(Len(d) - 1) : d[i] = "."
ExtHost(h) == ExtHostName(SubSeq(h, 1, Len(h) - ExtHostPort(h)))

\* whether the extension of vcsExtensionRegex can be the "." at position i,
\* s being the position of the first "/"
ExtAtFrom(path, s, i) ==
    /\ s > 0 /\ i > s /\ i < Len(path)
    /\ ExtHost(SubSeq(path, 1, s - 1))
    /\ All(SubSeq(path, s + 1, i - 1), ClsRepo)
    /\ path[i] = "." /\ path[i + 1] \in VCSExts
    /\ \/ i + 1 = Len(path)
       \/ /\ path[i + 2] = "/"
          /\ Segs(Split(From(path, i + 3)), 1, ClsSeg)
ExtAt(path, i) == ExtAtFrom(path, Index(path, "/"), i)

\* the last "." of host
LastDot(host) ==
    CHOOSE j \in 1..Len(host) :
        host[j] = "." /\ \A k \in (j + 1)..Len(host) : host[k] # "."

\* the submatches, the extension being at i; h is host[:port], n the
\* length of the port part
ExtGroups(path, i, h, n) ==
    <<path,
      SubSeq(path, 1, i + 1),
      SubSeq(path, 1, i - 1),
      \* the last iteration of the repeated group
      SubSeq(h, 1, LastDot(SubSeq(h, 1, Len(h) - n))),
      From(h, Len(h) - n + 1),
      <<path[i + 1]>>,
      From(path, i + 2)>>
ExtHostGroups(path, i, h) == ExtGroups(path, i, h, ExtHostPort(h))
ExtMatchAt(path, i) == ExtHostGroups(path, i, SubSeq(path, 1, Index(path, "/") - 1))

vcsExtensionRegex(path) ==
    IF \E i \in 1..Len(path) : ExtAt(path, i)
    THEN \* the repo part is lazy: the first extension that matches
         ExtMatchAt(path, CHOOSE k \in 1..Len(path) :
                              ExtAt(path, k) /\ \A j \in 1..(k - 1) : ~ExtAt(path, j))
    ELSE NoMatch

\* ------------------------------------------------------------------------
\* net/url and normalizeURI
\* ------------------------------------------------------------------------
\* a *url.URL; the nil pointer is NilURL
NilURL == [Scheme |-> "", User |-> "", Host |-> <<>>, Path |-> <<>>]

\* [//[user@]host]path after the scheme: auth is the authority
UrlAuth(scheme, rest, auth) ==
    [Scheme |-> scheme,
     User |-> IF Index(auth, "@") = 2 THEN auth[1] ELSE "",
     Host |-> From(auth, Index(auth, "@") + 1),
     Path |-> From(rest, 3 + Len(auth))]

UrlRest(scheme, rest) ==
    IF scheme # "" /\ ~HasPrefix(rest, <<"/">>)
    THEN \* an opaque URL: no host, no path
         [NilURL EXCEPT !.Scheme = scheme]
    ELSE IF /\ HasPrefix(rest, <<"/", "/">>)
            /\ (scheme # "" \/ ~HasPrefix(rest, <<"/", "/", "/">>))
    THEN UrlAuth(scheme, rest, SplitN2(From(rest, 3))[1])
    ELSE [NilURL EXCEPT !.Scheme = scheme, !.Path = rest]

\* url.Parse on the forms an import path takes: [scheme:][//[user@]host]path.
\* A scheme is one leading word before ":"; a "%" is an invalid escape, and
\* so is a ":" in the first path segment of a URL without scheme.
urlParse(raw) ==
    IF Contains(raw, "%") THEN [u |-> NilURL, err |-> "parse error"]
    ELSE IF Len(raw) >= 2 /\ LetterFirst(raw[1]) /\ raw[2] = ":"
    THEN [u |-> UrlRest(raw[1], From(raw, 3)), err |-> "nil"]
    ELSE IF Contains(Split(raw)[1], ":") THEN [u |-> NilURL, err |-> "parse error"]
    ELSE [u |-> UrlRest("", raw), err |-> "nil"]

ScpMatch(path, colon) ==
    IF /\ Len(path) >= 4 /\ IsWord(path[1]) /\ path[2] = "@"
       /\ colon > 3 /\ All(SubSeq(path, 3, colon - 1), ClsHost)
    THEN <<path, path[1], SubSeq(path, 3, colon - 1), From(path, colon + 1)>>
    ELSE NoMatch
\* scpSyntaxRe: ^([a-zA-Z0-9_]+)@([a-zA-Z0-9._-]+):(.*)$ with a one-word user
scpSyntaxRe(path) == ScpMatch(path, Index(path, ":"))

PathvldHost(h) ==
    /\ Len(h) >= 3 /\ All(h, ClsDashDot) /\ Contains(h, ".")
    /\ h[1] # "." /\ h[Len(h)] # "."
    /\ \A i \in 1..(Len(h) - 1) : ~(h[i] = "." /\ h[i + 1] = ".")
PathvldSegs(g) == PathvldHost(g[1]) /\ Segs(g, 2, ClsPath)
\* pathvld: ^([A-Za-z0-9-]+)(\.[A-Za-z0-9-]+)+(/[A-Za-z0-9-_.~]+)*$
pathvld(path) == PathvldSegs(Split(path))

\* the string normalizeURI validates
normalizedPath(u) ==
    IF u.Host # <<>> THEN u.Host \o <<"/">> \o TrimPrefix(u.Path, <<"/">>)
    ELSE u.Path

\* the SCP-like syntax converted to a URL
ScpURL(m) ==
    [u |-> [Scheme |-> "ssh", User |-> V(m, 1), Host |-> V(m, 2),
            Path |-> <<"/">> \o V(m, 3)],
     err |-> "nil"]
NormalizeScp(path, m) == IF m # NoMatch THEN ScpURL(m) ELSE urlParse(path)
NormalizeCheck(parsed) ==
    IF parsed.err # "nil" THEN [u |-> NilURL, err |-> "not a valid URI"]
    ELSE IF ~pathvld(normalizedPath(parsed.u))
    THEN [u |-> NilURL, err |-> "not a valid import path"]
    ELSE parsed

normalizeURI(path) == NormalizeCheck(NormalizeScp(path, scpSyntaxRe(path)))

\* ------------------------------------------------------------------------
\* Matchers.  deduceRoot gives [fut, err]: fut is the string the returned
\* simpleStringFuture yields.  deduceSource gives [mb, u, err, panic]: mb is
\* the candidate list handed to sourceFutureFactory, u the caller's URL as
\* the method leaves it, panic a run-time fault.  A candidate is
\* [kind, url, ref]: ref 0 is the caller's *url.URL itself, ref k > 0 the
\* k-th copy u2 made by the method.
\* ------------------------------------------------------------------------
ErrNotValidPath == "is not a valid path for a source on this host"
ErrGitScheme == "is not a valid scheme for accessing a git repository"
ErrHgScheme == "is not a valid scheme for accessing an hg repository"
ErrBzrScheme == "is not a valid scheme for accessing a bzr repository"
ErrGitHgScheme == "is not a valid scheme for accessing either a git or hg repository"
ErrExtScheme == "is not a valid scheme for accessing repositories of this type"
ErrMajorOnly == "gopkg.in only allows major versions"
ErrGpinScheme == "Specifying alternate schemes on gopkg.in imports is not permitted"
ErrNoExt == "contains no vcs extension hints for matching"
ErrUnknownType == "unknown repository type"

SchemeErrs == {ErrGitScheme, ErrHgScheme, ErrBzrScheme, ErrGitHgScheme, ErrExtScheme}

RootOK(s) == [fut |-> s, err |-> "nil"]
RootErr(e) == [fut |-> <<>>, err |-> e]
SrcOK(mb, u) == [mb |-> mb, u |-> u, err |-> "nil", panic |-> FALSE]
SrcErr(e, u) == [mb |-> <<>>, u |-> u, err |-> e, panic |-> FALSE]
SrcPanic(u) == [mb |-> <<>>, u |-> u, err |-> "nil", panic |-> TRUE]

\* maybeXSource{url: u}
Maybe(kind, u) == [kind |-> kind, url |-> u, ref |-> 0]
\* Enumerate with one u2 shared by all iterations: every candidate points
\* to the same URL, which holds the last scheme
EnumerateShared(kind, schemes, u, base) ==
    [k \in 1..Len(schemes) |->
        [kind |-> kind, url |-> [u EXCEPT !.Scheme = schemes[Len(schemes)]],
         ref |-> base + 1]]

\* for k, scheme := range schemes { u2 := *u; u2.Scheme = scheme; ... &u2 }
Enumerate(kind, schemes, u, base) ==
    [k \in 1..Len(schemes) |->
        [kind |-> kind, url |-> [u EXCEPT !.Scheme = schemes[k]], ref |-> base + k]]

\* the root every domain matcher returns: host + "/" + v[2]
RootOf(v, host) ==
    IF v = NoMatch THEN RootErr(ErrNotValidPath) ELSE RootOK(host \o <<"/">> \o V(v, 2))

\* validate an explicit scheme or enumerate a SchemeSet; u1 is u with its
\* path set
SingleKindURL(u1, kind, schemeErr, enum) ==
    IF u1.Scheme # ""
    THEN IF ~validateVCSScheme(u1.Scheme, kind) THEN SrcErr(schemeErr, u1)
         ELSE SrcOK(<<Maybe(kind, u1)>>, u1)
    ELSE SrcOK(Enumerate(kind, enum, u1, 0), u1)
\* the body shared by the single-kind matchers
SingleKind(v, u, kind, schemeErr, enum) ==
    IF v = NoMatch THEN SrcErr(ErrNotValidPath, u)
    ELSE SingleKindURL([u EXCEPT !.Path = V(v, 2)], kind, schemeErr, enum)

githubDeduceRoot(path) == RootOf(ghRegex(path), <<"github", ".", "com">>)

githubDeduceSource(path, u) ==
    SingleKind(ghRegex(path), u, "git", ErrGitScheme, gitSchemes)

bitbucketDeduceRoot(path) == RootOf(bbRegex(path), <<"bitbucket", ".", "org">>)

\* the explicit-scheme branch
BitbucketScheme(u1, isgit, ishg, validgit, validhg) ==
    IF isgit
    THEN IF ~validgit THEN SrcErr(ErrGitScheme, u1)
         ELSE SrcOK(<<Maybe("git", u1)>>, u1)
    ELSE IF ishg
    THEN IF ~validhg THEN SrcErr(ErrHgScheme, u1)
         ELSE SrcOK(<<Maybe("hg", u1)>>, u1)
    ELSE IF ~validgit /\ ~validhg THEN SrcErr(ErrGitHgScheme, u1)
    \* No other choice, make an option for both git and hg
    ELSE SrcOK(<<Maybe("git", u1), Maybe("hg", u1)>>, u1)

\* BitbucketAppend with the two appends in the other order
BitbucketAppendHgFirst(u1, gits, isgit) ==
    SrcOK((IF ~isgit THEN Enumerate("hg", hgSchemes, u1, 0) ELSE <<>>) \o gits, u1)

\* mb = append(mb, ...): the git enumeration unless ishg, then the hg
\* enumeration unless isgit
BitbucketAppend(u1, gits, isgit) ==
    SrcOK(gits \o (IF ~isgit THEN Enumerate("hg", hgSchemes, u1, Len(gits)) ELSE <<>>),
          u1)
BitbucketEnum(u1, isgit, ishg) ==
    BitbucketAppend(u1, IF ~ishg THEN Enumerate("git", gitSchemes, u1, 0) ELSE <<>>,
                    isgit)

BitbucketURL(u1, isgit, ishg) ==
    IF u1.Scheme # ""
    THEN BitbucketScheme(u1, isgit, ishg, validateVCSScheme(u1.Scheme, "git"),
                         validateVCSScheme(u1.Scheme, "hg"))
    ELSE BitbucketEnum(u1, isgit, ishg)

\* This isn't definitive, but it'll probably catch most
IsGit(u1) == HasSuffix(u1.Path, <<".", "git">>) \/ u1.User = "git"
IsHg(u1) == HasSuffix(u1.Path, <<".", "hg">>) \/ u1.User = "hg"
BitbucketPath(u1) == BitbucketURL(u1, IsGit(u1), IsHg(u1))
BitbucketSource(v, u) ==
    IF v = NoMatch THEN SrcErr(ErrNotValidPath, u)
    ELSE BitbucketPath([u EXCEPT !.Path = V(v, 2)])

bitbucketDeduceSource(path, u) == BitbucketSource(bbRegex(path), u)

\* "gopkg.in/" + v[2]
GopkginRoot(v) ==
    IF v = NoMatch THEN RootErr(ErrNotValidPath)
    ELSE RootOK(<<"gopkg", ".", "in", "/">> \o V(v, 2))
gopkginDeduceRoot(path) == GopkginRoot(gpinNewRegex(path))

\* gopkg.in is always backed by github
GopkginURL(v, u) ==
    [u EXCEPT !.Host = <<"github", ".", "com">>,
              !.Path = IF V(v, 2) = <<>>
                       THEN <<"go", "-", "pkg", "/">> \o V(v, 3)
                       ELSE V(v, 2) \o <<"/">> \o V(v, 3)]
GopkginEnum(u1) == SrcOK(Enumerate("git", gitSchemes, u1, 0), u1)
\* GopkginSource without the check of the version for a dot
GopkginSourceAnyVersion(v, u) ==
    IF v = NoMatch THEN SrcErr(ErrNotValidPath, u)
    ELSE IF u.Scheme # "" THEN SrcErr(ErrGpinScheme, u)
    ELSE GopkginEnum(GopkginURL(v, u))

\* GopkginSource validating an explicit scheme as the git matchers do
GopkginSourceGitSchemes(v, u) ==
    IF v = NoMatch THEN SrcErr(ErrNotValidPath, u)
    ELSE IF Contains(V(v, 4), ".") THEN SrcErr(ErrMajorOnly, u)
    ELSE SingleKindURL(GopkginURL(v, u), "git", ErrGitScheme, gitSchemes)

GopkginSource(v, u) ==
    IF v = NoMatch THEN SrcErr(ErrNotValidPath, u)
    ELSE IF Contains(V(v, 4), ".") THEN SrcErr(ErrMajorOnly, u)
    ELSE IF u.Scheme # "" THEN SrcErr(ErrGpinScheme, u)
    ELSE GopkginEnum(GopkginURL(v, u))

gopkginDeduceSource(path, u) == GopkginSource(gpinNewRegex(path), u)

launchpadDeduceRoot(path) == RootOf(lpRegex(path), <<"launchpad", ".", "net">>)

launchpadDeduceSource(path, u) ==
    SingleKind(lpRegex(path), u, "bzr", ErrBzrScheme, bzrSchemes)

launchpadGitDeduceRoot(path) ==
    RootOf(glpRegex(path), <<"git", ".", "launchpad", ".", "net">>)

\* launchpadGitDeduceSource enumerating the git SchemeSet
launchpadGitDeduceSourceGitEnum(path, u) ==
    SingleKind(glpRegex(path), u, "git", ErrGitScheme, gitSchemes)

\* validates against the git SchemeSet, enumerates bzrSchemes
launchpadGitDeduceSource(path, u) ==
    SingleKind(glpRegex(path), u, "git", ErrGitScheme, bzrSchemes)

jazzDeduceRoot(path) == RootOf(jazzRegex(path), <<"hub", ".", "jazz", ".", "net">>)

jazzDeduceSource(path, u) ==
    SingleKind(jazzRegex(path), u, "git", ErrGitScheme, gitSchemes)

apacheDeduceRoot(path) == RootOf(apacheRegex(path), <<"git", ".", "apache", ".", "org">>)

apacheDeduceSource(path, u) ==
    SingleKind(apacheRegex(path), u, "git", ErrGitScheme, gitSchemes)

VcsExtensionRoot(v) == IF v = NoMatch THEN RootErr(ErrNoExt) ELSE RootOK(V(v, 1))
vcsExtensionDeduceRoot(path) == VcsExtensionRoot(vcsExtensionRegex(path))

\* mb = make(maybeSources, len(schemes)), then
\* for k, scheme := range gitSchemes { u2 := *u; ...; mb[k] = ... }:
\* the write of mb[k] is out of range once k reaches len(schemes)
VcsExtensionEnum(vcs, u1, schemes) ==
    IF Len(gitSchemes) > Len(schemes) THEN SrcPanic(u1)
    ELSE SrcOK(Enumerate(vcs, gitSchemes, u1, 0), u1)

VcsExtensionURL(vcs, u1) ==
    IF u1.Scheme # ""
    THEN IF ~validateVCSScheme(u1.Scheme, vcs) THEN SrcErr(ErrExtScheme, u1)
         ELSE SrcOK(<<Maybe(vcs, u1)>>, u1)
    ELSE VcsExtensionEnum(vcs, u1, SchemesOf(vcs))

\* x := strings.SplitN(v[1], "/", 2); u.Host = x[0]; u.Path = x[1]
VcsExtensionSplit(vcs, u, x) ==
    VcsExtensionURL(vcs, [u EXCEPT !.Host = x[1], !.Path = x[2]])

VcsExtensionKind(v, u, vcs) ==
    IF vcs \in {"git", "hg", "bzr"} THEN VcsExtensionSplit(vcs, u, SplitN2(V(v, 1)))
    ELSE SrcErr(ErrUnknownType, u)

VcsExtensionSource(v, u) ==
    IF v = NoMatch THEN SrcErr(ErrNoExt, u) ELSE VcsExtensionKind(v, u, V(v, 5)[1])

vcsExtensionDeduceSource(path, u) == VcsExtensionSource(vcsExtensionRegex(path), u)

Matchers == {"github", "bitbucket", "gopkgin", "launchpad", "launchpadGit",
             "jazz", "apache", "vcsExtension"}

\* mtch.deduceRoot(path) through the matcher interface
deduceRoot(m, path) ==
    CASE m = "github" -> githubDeduceRoot(path)
      [] m = "bitbucket" -> bitbucketDeduceRoot(path)
      [] m = "gopkgin" -> gopkginDeduceRoot(path)
      [] m = "launchpad" -> launchpadDeduceRoot(path)
      [] m = "launchpadGit" -> launchpadGitDeduceRoot(path)
      [] m = "jazz" -> jazzDeduceRoot(path)
      [] m = "apache" -> apacheDeduceRoot(path)
      [] m = "vcsExtension" -> vcsExtensionDeduceRoot(path)

\* mtch.deduceSource(path, u) through the matcher interface
deduceSource(m, path, u) ==
    CASE m = "github" -> githubDeduceSource(path, u)
      [] m = "bitbucket" -> bitbucketDeduceSource(path, u)
      [] m = "gopkgin" -> gopkginDeduceSource(path, u)
      [] m = "launchpad" -> launchpadDeduceSource(path, u)
      [] m = "launchpadGit" -> launchpadGitDeduceSource(path, u)
      [] m = "jazz" -> jazzDeduceSource(path, u)
      [] m = "apache" -> apacheDeduceSource(path, u)
      [] m = "vcsExtension" -> vcsExtensionDeduceSource(path, u)

\* ------------------------------------------------------------------------
\* The matcher registry sm.rootxt and its longest-prefix lookup
\* ------------------------------------------------------------------------
rootxt ==
    { [key |-> <<"github", ".", "com">>, m |-> "github"],
      [key |-> <<"bitbucket", ".", "org">>, m |-> "bitbucket"],
      [key |-> <<"gopkg", ".", "in">>, m |-> "gopkgin"],
      [key |-> <<"launchpad", ".", "net">>, m |-> "launchpad"],
      [key |-> <<"git", ".", "launchpad", ".", "net">>, m |-> "launchpadGit"],
      [key |-> <<"hub", ".", "jazz", ".", "net">>, m |-> "jazz"],
      [key |-> <<"git", ".", "apache", ".", "org">>, m |-> "apache"] }

Longest(hits) ==
    IF hits = {} THEN [has |-> FALSE, m |-> "none"]
    ELSE [has |-> TRUE,
          m |-> (CHOOSE e \in hits : \A f \in hits : Len(f.key) <= Len(e.key)).m]
\* sm.rootxt.LongestPrefix(path): the entry with the longest key that is a
\* prefix of path
LongestPrefix(path) == Longest({e \in rootxt : HasPrefix(path, e.key)})

\* ------------------------------------------------------------------------
\* deduceFromPath, up to its return
\* ------------------------------------------------------------------------
\* a matcher invocation: the method results for (path, u)
NoCall == [m |-> "none", path |-> <<>>, u |-> NilURL,
           root |-> RootErr("not called"), src |-> SrcErr("not called", NilURL)]
Invoke(m, p, u) ==
    [m |-> m, path |-> p, u |-> u,
     root |-> deduceRoot(m, p), src |-> deduceSource(m, p, u)]

\* what deduceFromPath returns: root and src are "nil", or the kind of
\* future / factory returned; stages lists the stages entered
Returned(root, rootVal, src, mb, err, stages) ==
    [root |-> root, rootVal |-> rootVal, src |-> src, mb |-> mb, err |-> err,
     stages |-> stages, panic |-> FALSE]
Failed(err, stages) == Returned("nil", <<>>, "nil", <<>>, err, stages)

\* FromMatcher without "root, src = nil, nil" on a deduceSource error
FromMatcherKeepRoot(c, stage) ==
    IF c.root.err # "nil" THEN Failed(c.root.err, <<stage>>)
    ELSE IF c.src.panic THEN [Failed("nil", <<stage>>) EXCEPT !.panic = TRUE]
    ELSE IF c.src.err # "nil"
    THEN Returned("simple", c.root.fut, "nil", <<>>, c.src.err, <<stage>>)
    ELSE Returned("simple", c.root.fut, "factory", c.src.mb, "nil", <<stage>>)

\* FromMatcher going on to the vanity stage when the matcher fails
FromMatcherFallthrough(c, stage) ==
    IF c.root.err # "nil" \/ (~c.src.panic /\ c.src.err # "nil")
    THEN Returned("vanity", <<>>, "vanity", <<>>, "nil", <<stage, "vanity">>)
    ELSE IF c.src.panic THEN [Failed("nil", <<stage>>) EXCEPT !.panic = TRUE]
    ELSE Returned("simple", c.root.fut, "factory", c.src.mb, "nil", <<stage>>)

FromMatcher(c, stage) ==
    IF c.root.err # "nil" THEN Failed(c.root.err, <<stage>>)
    ELSE IF c.src.panic THEN [Failed("nil", <<stage>>) EXCEPT !.panic = TRUE]
    ELSE IF c.src.err # "nil" THEN Failed(c.src.err, <<stage>>)
    ELSE Returned("simple", c.root.fut, "factory", c.src.mb, "nil", <<stage>>)

\* First, try the root path-based matches; next, the vcs extension-based
\* (infix) matcher; the matcher committed to, "none" for the vanity fallback
StageOf(lp, extRoot) ==
    IF lp.has THEN lp.m
    ELSE IF extRoot.err = "nil" THEN "vcsExtension"
    ELSE "none"
StageMatcher(path) == StageOf(LongestPrefix(path), vcsExtensionDeduceRoot(path))

Committed(path, u, m) ==
    IF m = "none"
    \* No luck so far. maybe it's one of them vanity imports?
    THEN Returned("vanity", <<>>, "vanity", <<>>, "nil", <<"vanity">>)
    ELSE FromMatcher(Invoke(m, path, u),
                     IF m = "vcsExtension" THEN "extension" ELSE "domain")

Normalized(path, n) ==
    IF n.err # "nil" THEN Failed(n.err, <<>>)
    ELSE Committed(path, n.u, StageMatcher(path))

deduceFromPath(path) == Normalized(path, normalizeURI(path))

\* ------------------------------------------------------------------------
\* Bounds and inputs
\* ------------------------------------------------------------------------
\* invocations of one DeferredSourceFactory
MaxSrc == 2
\* entries in one metadata response
MaxImports == 2

GH == <<"github", ".", "com">>
BB == <<"bitbucket", ".", "org">>
GP == <<"gopkg", ".", "in">>
EX == <<"example", ".", "com">>
VAN == <<"example", ".", "org">>

\* bare import paths
BarePaths ==
    { GH \o <<"/", "user", "/", "repo", "/", "sub", "/", "pkg">>,
      GH \o <<"/", "user">>,
      BB \o <<"/", "user", "/", "repo">>,
      BB \o <<"/", "user", "/", "repo", ".", "git">>,
      BB \o <<"/", "user", "/", "repo", ".", "hg", "/", "sub">>,
      GP \o <<"/", "yaml", ".", "v2">>,
      GP \o <<"/", "user", "/", "pkg", ".", "v1", "/", "sub">>,
      GP \o <<"/", "pkg", ".", "v1", ".", "2">>,
      <<"launchpad", ".", "net", "/", "proj", "/", "series">>,
      <<"git", ".", "launchpad", ".", "net", "/", "proj">>,
      <<"hub", ".", "jazz", ".", "net", "/", "git", "/", "user", "/", "repo">>,
      <<"git", ".", "apache", ".", "org", "/", "repo", ".", "git">>,
      EX \o <<"/", "user", "/", "repo", ".", "git", "/", "sub">>,
      EX \o <<"/", "repo", ".", "hg">>,
      EX \o <<"/", "repo", ".", "bzr">>,
      EX \o <<"/", "repo", ".", "svn">>,
      VAN \o <<"/", "pkg", "/", "sub">> }

\* import paths in URL form and SCP form, and one outside the grammar
URLPaths ==
    { <<"svn", ":", "/", "/">> \o GH \o <<"/", "user", "/", "repo">>,
      <<"https", ":", "/", "/">> \o GP \o <<"/", "yaml", ".", "v2">>,
      <<"git", "@">> \o BB \o <<":", "user", "/", "repo">>,
      <<"repo">> }

\* the arguments of deduceFromPath
RawPaths == BarePaths \cup URLPaths

\* explicit schemes and URL users given to the matcher methods
Schemes == {"https", "ssh", "git", "http", "bzr+ssh", "bzr", "svn", "ftp"}
Users == {"", "git", "hg"}

\* scheme://[user@]path
MkRaw(scheme, user, p) ==
    <<scheme, ":", "/", "/">> \o (IF user = "" THEN <<>> ELSE <<user, "@">>) \o p

\* the (path, u) pairs given to the matcher methods: the import path of a
\* bare, URL-form or SCP-form string with the URL normalizeURI makes of it
MatcherRaws ==
    BarePaths
      \cup {MkRaw(sc, us, p) : sc \in Schemes, us \in Users, p \in BarePaths}
      \cup {<<"git", "@">> \o GH \o <<":", "user", "/", "repo">>}
InputOf(n) == [path |-> normalizedPath(n.u), u |-> n.u]
MatcherInputs ==
    {InputOf(n) : n \in {x \in {normalizeURI(r) : r \in MatcherRaws} : x.err = "nil"}}

\* (cachedir, analyzer) pairs a factory is invoked with
FactoryArgs == {[cachedir |-> "cache1", an |-> "an1"], [cachedir |-> "cache2", an |-> "an2"]}

\* go-import meta tags a server may answer with
GoodRepo == <<"https", ":", "/", "/", "code", ".", "example", ".", "org", "/", "pkg">>
BadRepo == <<"%">>
MetaImports ==
    { [Prefix |-> VAN \o <<"/", "pkg">>, VCS |-> "git", RepoRoot |-> GoodRepo],
      [Prefix |-> VAN, VCS |-> "hg", RepoRoot |-> GoodRepo],
      [Prefix |-> VAN \o <<"/", "pkg">>, VCS |-> "svn", RepoRoot |-> GoodRepo],
      [Prefix |-> VAN \o <<"/", "pkg">>, VCS |-> "fossil", RepoRoot |-> GoodRepo],
      [Prefix |-> VAN \o <<"/", "pkg">>, VCS |-> "git", RepoRoot |-> BadRepo],
      [Prefix |-> <<"other", ".", "org", "/", "x">>, VCS |-> "git", RepoRoot |-> GoodRepo] }

SeqsUpTo(S, n) == UNION {[1..k -> S] : k \in 0..n}

\* ------------------------------------------------------------------------
\* parseMetadata after the fetch: the selection among the parsed imports
\* ------------------------------------------------------------------------
ErrFetch == "unable to determine remote metadata protocol"
ErrParse == "parseMetaGoImports failed"
ErrMultiple == "multiple meta tags match import path"
ErrNotFound == "go-import metadata not found"
ErrDeduce == "unable to deduce repository and source type"
ErrBadURL == "server returned bad URL when searching for vanity import"
ErrUnsupported == "unsupported vcs type"
ErrTry == "try failed"

MetaResult(importroot, vcs, reporoot, err) ==
    [importroot |-> importroot, vcs |-> vcs, reporoot |-> reporoot, err |-> err]

\* parseErr: whether parseMetaGoImports fails; imports: what it returns
MetaOf(im) == MetaResult(im.Prefix, im.VCS, im.RepoRoot, "nil")
\* matches: the indices of the imports whose Prefix is a prefix of path
MetaSelect(imports, matches) ==
    IF Cardinality(matches) > 1 THEN MetaResult(<<>>, "", <<>>, ErrMultiple)
    ELSE IF matches = {} THEN MetaResult(<<>>, "", <<>>, ErrNotFound)
    ELSE MetaOf(imports[CHOOSE i \in matches : TRUE])
parseMetadata(path, parseErr, imports) ==
    IF parseErr THEN MetaResult(<<>>, "", <<>>, ErrParse)
    ELSE MetaSelect(imports, {i \in 1..Len(imports) : HasPrefix(path, imports[i].Prefix)})

\* ------------------------------------------------------------------------
\* State
\* ------------------------------------------------------------------------
VARIABLES
    pc,       \* "idle", then "returned" / "panicked" (deduceFromPath) or
              \* "called" (a matcher's methods called directly)
    path,     \* the path argument of the call
    call,     \* the matcher invocation the call made, NoCall if none
    ret,      \* what deduceFromPath returned
    rootU,    \* the vanity metadata goroutine, the variables it writes and
              \* its local reporoot
    gets,     \* the HTTP GETs issued, in order
    srcs,     \* the source futures made by the returned factory, in order
    rootObs   \* the (value, error) pairs readers got from the root future;
              \* srcs[i].obs holds those got from the i-th source future

vars == <<pc, path, call, ret, rootU, gets, srcs, rootObs>>

NoSource == [of |-> <<>>, cachedir |-> "", an |-> ""]

Init ==
    /\ pc = "idle"
    /\ path = <<>>
    /\ call = NoCall
    /\ ret = Failed("nil", <<>>)
    /\ rootU = [pc |-> "none", importroot |-> <<>>, vcs |-> "", ru |-> NilURL,
                reporoot |-> <<>>, futerr |-> "nil", merr |-> "nil", rc |-> "",
                parsed |-> ""]
    /\ gets = <<>>
    /\ srcs = <<>>
    /\ rootObs = {}

\* ------------------------------------------------------------------------
\* deduceFromPath and the matcher methods
\* ------------------------------------------------------------------------
\* the matcher invocation deduceFromPath(p) makes: deduceSource is called
\* only after deduceRoot succeeded
CallMade(c) == IF c.root.err # "nil" THEN [c EXCEPT !.src = NoCall.src] ELSE c
CallBy(p, n, m) ==
    IF n.err # "nil" \/ m = "none" THEN NoCall ELSE CallMade(Invoke(m, p, n.u))
CallOf(p) == CallBy(p, normalizeURI(p), StageMatcher(p))

\* r: what deduceFromPath(p) returns; c: the matcher invocation it makes
Deduced(p, r, c) ==
    /\ pc' = IF r.panic THEN "panicked" ELSE "returned"
    /\ path' = p
    /\ call' = c
    /\ ret' = r
    \* go func() { ... parseMetadata(path) ... }()
    /\ rootU' = IF r.root = "vanity" THEN [rootU EXCEPT !.pc = "https"] ELSE rootU

DeduceFromPath(p) ==
    /\ pc = "idle"
    /\ Deduced(p, deduceFromPath(p), CallOf(p))
    /\ UNCHANGED <<gets, srcs, rootObs>>

CallMatcher(m, in) ==
    /\ pc = "idle"
    /\ pc' = "called"
    /\ path' = in.path
    /\ call' = Invoke(m, in.path, in.u)
    /\ UNCHANGED <<ret, rootU, gets, srcs, rootObs>>

\* ------------------------------------------------------------------------
\* The vanity metadata goroutine: fetchMetadata, parseMetadata, url.Parse
\* ------------------------------------------------------------------------
\* the exit on a parseMetadata error without the deferred close(c)
RootFailNoClose(u, merr) ==
    [u EXCEPT !.pc = "stuck", !.merr = merr, !.futerr = ErrDeduce]

\* the goroutine's exit on a parseMetadata error: close(c) by defer
RootFail(u, merr) ==
    [u EXCEPT !.pc = "done", !.merr = merr, !.futerr = ErrDeduce]

\* fetchMetadata without the return after a successful https GET
RootFetchHTTPSAlwaysRetry(ok) ==
    /\ rootU.pc = "https"
    /\ gets' = Append(gets, [scheme |-> "https", ok |-> ok])
    /\ rootU' = [rootU EXCEPT !.pc = "http"]
    /\ UNCHANGED <<pc, path, call, ret, srcs, rootObs>>

\* doFetchMetadata("https", path)
RootFetchHTTPS(ok) ==
    /\ rootU.pc = "https"
    /\ gets' = Append(gets, [scheme |-> "https", ok |-> ok])
    /\ rootU' = IF ok THEN [rootU EXCEPT !.pc = "parse", !.rc = "https"]
                ELSE [rootU EXCEPT !.pc = "http"]
    /\ UNCHANGED <<pc, path, call, ret, srcs, rootObs>>

\* doFetchMetadata("http", path)
RootFetchHTTP(ok) ==
    /\ rootU.pc = "http"
    /\ gets' = Append(gets, [scheme |-> "http", ok |-> ok])
    /\ rootU' = IF ok THEN [rootU EXCEPT !.pc = "parse", !.rc = "http"]
                ELSE RootFail(rootU, ErrFetch)
    /\ UNCHANGED <<pc, path, call, ret, srcs, rootObs>>

\* importroot, vcs, reporoot, futerr = parseMetadata(path): the assignment
\* of the captured variables and of the goroutine's local reporoot; on an
\* error the goroutine exits, otherwise it goes on to url.Parse
RootFinish(u, r) ==
    IF r.err # "nil" THEN RootFail([u EXCEPT !.parsed = u.rc], r.err)
    ELSE [u EXCEPT !.pc = "url", !.parsed = u.rc, !.importroot = r.importroot,
                   !.vcs = r.vcs, !.reporoot = r.reporoot]

\* what parseMetadata(p) can return from parseMetaGoImports(rc) on: whether
\* the parser fails and the imports it returns are the server's choice
MetaOutcomes(p) ==
    { parseMetadata(p, parseErr, imports) :
        parseErr \in BOOLEAN, imports \in SeqsUpTo(MetaImports, MaxImports) }

\* parseMetadata returns r, which is assigned
RootParse ==
    /\ rootU.pc = "parse"
    /\ \E r \in MetaOutcomes(path) : rootU' = RootFinish(rootU, r)
    /\ UNCHANGED <<pc, path, call, ret, gets, srcs, rootObs>>

\* ru, futerr = url.Parse(reporoot), then close(c) by defer
RootURL(u, parsed) ==
    IF parsed.err # "nil"
    THEN [u EXCEPT !.pc = "done", !.importroot = <<>>, !.futerr = ErrBadURL]
    ELSE [u EXCEPT !.pc = "done", !.ru = parsed.u]

RootParseURL ==
    /\ rootU.pc = "url"
    /\ rootU' = RootURL(rootU, urlParse(rootU.reporoot))
    /\ UNCHANGED <<pc, path, call, ret, gets, srcs, rootObs>>

\* the root future without its "<-c"
RootResolvedNoWait == ret.root # "nil"

\* <-c in the root future
RootResolved == ret.root = "simple" \/ (ret.root = "vanity" /\ rootU.pc = "done")
\* what the root future returns
RootGet ==
    IF ret.root = "simple" THEN [val |-> ret.rootVal, err |-> "nil"]
    ELSE [val |-> rootU.importroot, err |-> rootU.futerr]

\* ------------------------------------------------------------------------
\* Source futures: sourceFutureFactory and the vanity source closure
\* ------------------------------------------------------------------------
\* err is the variable the returned future reads; ierr is the err the vanity
\* goroutine declares with "_, err := root()"; early records that the
\* vanity closure was invoked while the metadata goroutine was still running
NewSrc(kind, mb, a) ==
    [kind |-> kind, cachedir |-> a.cachedir, an |-> a.an,
     pc |-> IF kind = "vanity" THEN "wait" ELSE "try",
     m |-> mb, src |-> NoSource, err |-> "nil", ierr |-> "nil",
     tries |-> <<>>, obs |-> {},
     early |-> (kind = "vanity" /\ rootU.pc # "done")]

InvokeFactory(a) ==
    /\ pc = "returned"
    /\ ret.src # "nil"
    /\ Len(srcs) < MaxSrc
    /\ srcs' = Append(srcs, NewSrc(ret.src, ret.mb, a))
    /\ UNCHANGED <<pc, path, call, ret, rootU, gets, rootObs>>

\* AfterRoot without the return on a root error
AfterRootIgnoreErr(f, got, vcs, ru) ==
    IF vcs \in {"git", "bzr", "hg"}
    THEN [f EXCEPT !.pc = "try", !.m = <<Maybe(vcs, ru)>>]
    ELSE [f EXCEPT !.pc = "done", !.ierr = ErrUnsupported]

\* the vanity goroutine from root() to the choice of m
AfterRoot(f, got, vcs, ru) ==
    IF got.err # "nil" THEN [f EXCEPT !.pc = "done", !.ierr = got.err]
    ELSE IF vcs \in {"git", "bzr", "hg"}
    THEN [f EXCEPT !.pc = "try", !.m = <<Maybe(vcs, ru)>>]
    ELSE [f EXCEPT !.pc = "done", !.ierr = ErrUnsupported]

\* the vanity goroutine with a root() that returns without "<-c"
SrcWaitRootNoWait(i) ==
    /\ i \in 1..Len(srcs)
    /\ srcs[i].pc = "wait"
    /\ srcs' = [srcs EXCEPT ![i] = AfterRoot(srcs[i], RootGet, rootU.vcs, rootU.ru)]
    /\ UNCHANGED <<pc, path, call, ret, rootU, gets, rootObs>>

\* _, err := root() and what follows up to the choice of m
SrcWaitRoot(i) ==
    /\ i \in 1..Len(srcs)
    /\ srcs[i].pc = "wait"
    /\ RootResolved
    /\ srcs' = [srcs EXCEPT ![i] = AfterRoot(srcs[i], RootGet, rootU.vcs, rootU.ru)]
    /\ UNCHANGED <<pc, path, call, ret, rootU, gets, rootObs>>

\* src, err = m.try(cachedir, an), then close(c) by defer
TryResult(f, ok) ==
    [src |-> IF ok THEN [of |-> f.m, cachedir |-> f.cachedir, an |-> f.an]
             ELSE NoSource,
     err |-> IF ok THEN "nil" ELSE ErrTry]
Tried(f) ==
    [f EXCEPT !.pc = "done",
              !.tries = Append(@, [mb |-> f.m, cachedir |-> f.cachedir, an |-> f.an])]
\* the assignment "src, err = ...try(cachedir, an)": in the vanity goroutine
\* err is the goroutine's own variable
AssignTry(f, res) ==
    IF f.kind = "vanity" THEN [f EXCEPT !.src = res.src, !.ierr = res.err]
    ELSE [f EXCEPT !.src = res.src, !.err = res.err]
AfterTry(f, ok) == AssignTry(Tried(f), TryResult(f, ok))

SrcTry(i, ok) ==
    /\ i \in 1..Len(srcs)
    /\ srcs[i].pc = "try"
    /\ srcs' = [srcs EXCEPT ![i] = AfterTry(srcs[i], ok)]
    /\ UNCHANGED <<pc, path, call, ret, rootU, gets, rootObs>>

\* <-c in a source future
SrcResolved(i) == srcs[i].pc = "done"
SrcGet(i) == [src |-> srcs[i].src, err |-> srcs[i].err]

\* ------------------------------------------------------------------------
\* Readers of the futures.  A read is "<-c" followed by the return of the
\* captured variables: it blocks until the channel is closed, so it
\* completes only in a state where the future is resolved.  Any number of
\* reads of one future may complete, in any order.
\* ------------------------------------------------------------------------
ReadRoot ==
    /\ pc = "returned"
    /\ ret.root # "nil"
    /\ RootResolved
    /\ rootObs' = rootObs \cup {RootGet}
    /\ UNCHANGED <<pc, path, call, ret, rootU, gets, srcs>>

ReadSrc(i) ==
    /\ i \in 1..Len(srcs)
    /\ SrcResolved(i)
    /\ srcs' = [srcs EXCEPT ![i].obs = @ \cup {SrcGet(i)}]
    /\ UNCHANGED <<pc, path, call, ret, rootU, gets, rootObs>>

Next ==
    \/ \E p \in RawPaths : DeduceFromPath(p)
    \/ \E m \in Matchers, in \in MatcherInputs : CallMatcher(m, in)
    \/ \E ok \in BOOLEAN : RootFetchHTTPS(ok)
    \/ \E ok \in BOOLEAN : RootFetchHTTP(ok)
    \/ RootParse
    \/ RootParseURL
    \/ \E a \in FactoryArgs : InvokeFactory(a)
    \/ \E i \in 1..MaxSrc : SrcWaitRoot(i)
    \/ \E i \in 1..MaxSrc, ok \in BOOLEAN : SrcTry(i, ok)
    \/ ReadRoot
    \/ \E i \in 1..MaxSrc : ReadSrc(i)

Spec == Init /\ [][Next]_vars

\* Scheduling.  Each goroutine started with "go func()" keeps running: the
\* metadata goroutine takes its next step (every external call returns), so
\* does the goroutine of every source future, and a reader blocked in "<-c"
\* goes on once the channel is closed.  Calls of deduceFromPath and of the
\* factory are the caller's choice and carry no fairness.
RootUnit ==
    \/ \E ok \in BOOLEAN : RootFetchHTTPS(ok)
    \/ \E ok \in BOOLEAN : RootFetchHTTP(ok)
    \/ RootParse
    \/ RootParseURL
SrcUnit(i) == SrcWaitRoot(i) \/ \E ok \in BOOLEAN : SrcTry(i, ok)
Fairness ==
    /\ WF_vars(RootUnit)
    /\ WF_vars(ReadRoot)
    /\ \A i \in 1..MaxSrc : WF_vars(SrcUnit(i)) /\ WF_vars(ReadSrc(i))
FairSpec == Spec /\ Fairness

\* ------------------------------------------------------------------------
\* Properties
\* ------------------------------------------------------------------------
SrcIdx == 1..Len(srcs)
\* fetchMetadata starts with the https GET: the number of fetches made
Fetches == Cardinality({k \in 1..Len(gets) : gets[k].scheme = "https"})
\* the vanity root future resolved with a non-nil error
RootFailed == ret.root = "vanity" /\ rootU.pc = "done" /\ rootU.futerr # "nil"
\* the one call of try a source future makes with its own arguments
OwnTry(f) == <<[mb |-> f.m, cachedir |-> f.cachedir, an |-> f.an]>>

C3_OneStageByPriority ==
    /\ pc \in {"idle", "called"} => (rootU.pc = "none" /\ gets = <<>>)
    /\ (pc \in {"returned", "panicked"} /\ normalizeURI(path).err = "nil") =>
        /\ Len(ret.stages) = 1
        /\ LongestPrefix(path).has =>
            /\ ret.stages = <<"domain">>
            /\ call.m = LongestPrefix(path).m
            /\ call.root.err # "nil" =>
                 (ret.err = call.root.err /\ ret.root = "nil" /\ ret.src = "nil")
            /\ (call.root.err = "nil" /\ ~call.src.panic /\ call.src.err # "nil") =>
                 (ret.err = call.src.err /\ ret.root = "nil" /\ ret.src = "nil")
            /\ rootU.pc = "none" /\ gets = <<>>
        /\ (~LongestPrefix(path).has /\ vcsExtensionDeduceRoot(path).err = "nil") =>
            /\ ret.stages = <<"extension">>
            /\ call.m = "vcsExtension"
            /\ (~call.src.panic /\ call.src.err # "nil") =>
                 (ret.err = call.src.err /\ ret.root = "nil" /\ ret.src = "nil")
            /\ (~call.src.panic /\ call.src.err = "nil") =>
                 (ret.err = "nil" /\ ret.src = "factory" /\ ret.mb = call.src.mb)
            /\ rootU.pc = "none" /\ gets = <<>>
        /\ (rootU.pc # "none" \/ gets # <<>>) =>
            /\ ~LongestPrefix(path).has
            /\ vcsExtensionDeduceRoot(path).err # "nil"
            /\ ret.stages = <<"vanity">>

\* deduceFromPath returned the failure of the matcher a domain hit chose
C3_Reached ==
    /\ pc = "returned"
    /\ LongestPrefix(path).has
    /\ ret.stages = <<"domain">>
    /\ ret.err = ErrNotValidPath

\* the kinds of the registered domains C4 lists
DomainKinds ==
    { [host |-> <<"github", ".", "com">>, kinds |-> {"git"}],
      [host |-> <<"bitbucket", ".", "org">>, kinds |-> {"git", "hg"}],
      [host |-> <<"launchpad", ".", "net">>, kinds |-> {"bzr"}],
      [host |-> <<"git", ".", "launchpad", ".", "net">>, kinds |-> {"git"}],
      [host |-> <<"hub", ".", "jazz", ".", "net">>, kinds |-> {"git"}],
      [host |-> <<"git", ".", "apache", ".", "org">>, kinds |-> {"git"}] }
\* u names a registered domain with an explicit scheme that no kind of the
\* domain accepts
BadSchemeOnDomain(u) ==
    /\ u.Scheme # ""
    /\ \E d \in DomainKinds :
        /\ u.Host = d.host
        /\ \A k \in d.kinds : ~validateVCSScheme(u.Scheme, k)

\* C4: deduceFromPath on a well-formed input that names a registered domain
\* with an explicit scheme outside the SchemeSets of the domain's kinds
\* returns a scheme error and starts no vanity metadata fetch.
C4_BadSchemeFailsSync ==
    (/\ pc \in {"returned", "panicked"}
     /\ normalizeURI(path).err = "nil"
     /\ BadSchemeOnDomain(normalizeURI(path).u)) =>
        /\ ret.err \in SchemeErrs
        /\ ret.root = "nil" /\ ret.src = "nil"
        /\ rootU.pc = "none" /\ gets = <<>>

\* a GET was issued for such an input
C4_Reached ==
    /\ pc = "returned"
    /\ normalizeURI(path).err = "nil"
    /\ BadSchemeOnDomain(normalizeURI(path).u)
    /\ gets # <<>>

\* the root succeeded as seen by source future f
RootSucceeded(f) ==
    f.kind = "factory" \/ (rootU.pc = "done" /\ rootU.futerr = "nil")
\* the root succeeded and names a kind the vanity source closure supports
RootUsable(f) ==
    f.kind = "factory"
      \/ (rootU.pc = "done" /\ rootU.futerr = "nil" /\ rootU.vcs \in {"git", "bzr", "hg"})

\* C5 as amended: every invocation of the factory makes a source future of
\* its own; once resolved, it has called try exactly once, with its own
\* cachedir and analyzer, when the root succeeded and (vanity path) names
\* git, bzr or hg, and has not called try otherwise; in the vanity path each
\* unit that went past the root used the one root result, and the metadata
\* was fetched once however many futures were made.
C5_OwnTryOnUsableRoot ==
    /\ Fetches <= 1
    /\ \A i \in SrcIdx :
        /\ Len(srcs[i].tries) <= 1
        /\ srcs[i].pc = "done" =>
            IF RootUsable(srcs[i]) THEN srcs[i].tries = OwnTry(srcs[i])
            ELSE srcs[i].tries = <<>>
        /\ (srcs[i].kind = "vanity" /\ srcs[i].pc # "wait") =>
            /\ rootU.pc = "done"
            /\ Fetches = 1
            /\ srcs[i].tries # <<>> => srcs[i].m = <<Maybe(rootU.vcs, rootU.ru)>>
        /\ (srcs[i].kind = "factory" /\ srcs[i].pc = "done") => srcs[i].m = ret.mb

\* two vanity source futures made with different arguments both called try
C5_Reached ==
    /\ Len(srcs) = 2
    /\ srcs[1].kind = "vanity"
    /\ srcs[1].cachedir # srcs[2].cachedir
    /\ \A i \in SrcIdx : srcs[i].pc = "done" /\ srcs[i].tries = OwnTry(srcs[i])
    /\ Fetches = 1

\* C5 as stated: every resolved source future has called try exactly once
\* with its own arguments when the root succeeded.
C5_OwnTryOnRootSuccess ==
    \A i \in SrcIdx :
        (srcs[i].pc = "done" /\ RootSucceeded(srcs[i])) =>
            srcs[i].tries = OwnTry(srcs[i])

\* C6: for a path matching the gopkg.in pattern, gopkginMatcher.deduceRoot
\* yields the pattern's root group, "gopkg.in/[user/]pkg.vN".
C6_GopkginRootIsRootGroup ==
    (pc = "called" /\ call.m = "gopkgin" /\ gpinNewRegex(path) # NoMatch) =>
        /\ call.root.err = "nil"
        /\ call.root.fut = V(gpinNewRegex(path), 1)
        /\ path = <<"gopkg", ".", "in", "/", "yaml", ".", "v2">> =>
             call.root.fut = path

\* gopkginMatcher.deduceRoot was called on gopkg.in/user/pkg.v1/sub
C6_Reached ==
    /\ pc = "called" /\ call.m = "gopkgin"
    /\ path = <<"gopkg", ".", "in", "/", "user", "/", "pkg", ".", "v1", "/", "sub">>
    /\ call.root.fut # V(gpinNewRegex(path), 1)

\* the captured groups of a gopkg.in match: user (may be empty), package
\* name, version
GpinUserOf(v) == IF V(v, 2) = <<>> THEN <<"go", "-", "pkg">> ELSE V(v, 2)

\* C7: gopkginMatcher.deduceSource without explicit scheme fails with the
\* version error when the captured version has a dot; otherwise all its
\* candidates are git candidates on host github.com with path user/pkg, or
\* go-pkg/pkg without a user segment.  deduceFromPath on a gopkg.in path with
\* a dotted version returns that error and no futures.
C7_GopkginSource ==
    /\ (/\ pc = "called" /\ call.m = "gopkgin" /\ call.u.Scheme = ""
        /\ gpinNewRegex(path) # NoMatch) =>
         IF Contains(V(gpinNewRegex(path), 4), ".")
         THEN call.src.err = ErrMajorOnly /\ call.src.mb = <<>>
         ELSE /\ call.src.err = "nil"
              /\ call.src.mb # <<>>
              /\ \A k \in 1..Len(call.src.mb) :
                   /\ call.src.mb[k].kind = "git"
                   /\ call.src.mb[k].url.Host = <<"github", ".", "com">>
                   /\ call.src.mb[k].url.Path =
                        GpinUserOf(gpinNewRegex(path)) \o <<"/">> \o V(gpinNewRegex(path), 3)
              /\ path = <<"gopkg", ".", "in", "/", "yaml", ".", "v2">> =>
                   call.src.mb[1].url.Path = <<"go", "-", "pkg", "/", "yaml">>
    /\ (/\ pc \in {"returned", "panicked"}
        /\ gpinNewRegex(path) # NoMatch
        /\ Contains(V(gpinNewRegex(path), 4), ".")) =>
         (pc = "returned" /\ ret.err = ErrMajorOnly /\ ret.root = "nil" /\ ret.src = "nil")

\* deduceFromPath returned the version error for gopkg.in/pkg.v1.2
C7_Reached ==
    /\ pc = "returned"
    /\ path = <<"gopkg", ".", "in", "/", "pkg", ".", "v1", ".", "2">>
    /\ ret.err = ErrMajorOnly

\* C8: gopkginMatcher.deduceSource on a gopkg.in path with any explicit
\* scheme, those of git's SchemeSet included, returns an error and no
\* candidates.
C8_GopkginRejectsSchemes ==
    (/\ pc = "called" /\ call.m = "gopkgin" /\ call.u.Scheme # ""
     /\ gpinNewRegex(path) # NoMatch) =>
        /\ call.src.err \in {ErrGpinScheme, ErrMajorOnly}
        /\ call.src.mb = <<>>
        /\ ~call.src.panic

\* the scheme https, of git's SchemeSet, was rejected on gopkg.in/yaml.v2
C8_Reached ==
    /\ pc = "called" /\ call.m = "gopkgin" /\ call.u.Scheme = "https"
    /\ path = <<"gopkg", ".", "in", "/", "yaml", ".", "v2">>
    /\ call.src.err = ErrGpinScheme

\* the kinds and the schemes of a candidate list, in order
KindsOf(mb) == [k \in 1..Len(mb) |-> mb[k].kind]
SchemesIn(mb) == [k \in 1..Len(mb) |-> mb[k].url.Scheme]
Repeat(x, n) == [k \in 1..n |-> x]
\* the repository part "user/repo" of a bitbucket match
BbRepo == V(bbRegex(path), 2)
BbCalled == pc = "called" /\ call.m = "bitbucket" /\ bbRegex(path) # NoMatch

\* C9: bitbucketMatcher.deduceSource without explicit scheme yields, for a
\* repo ending in ".git", one git candidate per git scheme in SchemeSet
\* order; for a repo ending in ".hg", one hg candidate per hg scheme in
\* order; without hint the git enumeration followed by the hg enumeration.
C9_BitbucketEnumeration ==
    (BbCalled /\ call.u.Scheme = "") =>
        /\ call.src.err = "nil"
        /\ \A k \in 1..Len(call.src.mb) :
             /\ call.src.mb[k].url.Host = call.u.Host
             /\ call.src.mb[k].url.Path = BbRepo
        /\ IF HasSuffix(BbRepo, <<".", "git">>)
           THEN /\ KindsOf(call.src.mb) = Repeat("git", 4)
                /\ SchemesIn(call.src.mb) = <<"https", "ssh", "git", "http">>
           ELSE IF HasSuffix(BbRepo, <<".", "hg">>)
           THEN /\ KindsOf(call.src.mb) = Repeat("hg", 3)
                /\ SchemesIn(call.src.mb) = <<"https", "ssh", "http">>
           ELSE /\ KindsOf(call.src.mb) = Repeat("git", 4) \o Repeat("hg", 3)
                /\ SchemesIn(call.src.mb) =
                     <<"https", "ssh", "git", "http", "https", "ssh", "http">>

\* the enumeration of both kinds was made for bitbucket.org/user/repo
C9_Reached ==
    /\ BbCalled /\ call.u.Scheme = ""
    /\ path = <<"bitbucket", ".", "org", "/", "user", "/", "repo">>
    /\ Len(call.src.mb) = 7

\* the hint bitbucketMatcher.deduceSource reads: the repo suffix or the user
BbHint ==
    IF HasSuffix(BbRepo, <<".", "git">>) \/ call.u.User = "git" THEN "git"
    ELSE IF HasSuffix(BbRepo, <<".", "hg">>) \/ call.u.User = "hg" THEN "hg"
    ELSE "none"
\* the kinds, git before hg, whose SchemeSet contains the scheme
ViableKinds(scheme) ==
    (IF scheme \in {"https", "ssh", "git", "http"} THEN <<"git">> ELSE <<>>)
      \o (IF scheme \in {"https", "ssh", "http"} THEN <<"hg">> ELSE <<>>)

\* C10: bitbucketMatcher.deduceSource with explicit scheme: without hint it
\* fails iff no kind's SchemeSet contains the scheme, and otherwise yields
\* one candidate for each kind whose SchemeSet contains it, git before hg;
\* with a hint it validates against the hinted kind and yields that kind's
\* single candidate.
C10_BitbucketExplicitScheme ==
    (BbCalled /\ call.u.Scheme # "") =>
        IF BbHint = "none"
        THEN /\ call.src.err # "nil" <=> ViableKinds(call.u.Scheme) = <<>>
             /\ KindsOf(call.src.mb) = ViableKinds(call.u.Scheme)
             /\ \A k \in 1..Len(call.src.mb) :
                  call.src.mb[k].url.Scheme = call.u.Scheme
        ELSE /\ call.src.err # "nil" <=> ~validateVCSScheme(call.u.Scheme, BbHint)
             /\ call.src.err = "nil" => KindsOf(call.src.mb) = <<BbHint>>
             /\ call.src.err # "nil" => call.src.mb = <<>>

\* scheme git without hint gave an hg candidate
C10_Reached ==
    /\ BbCalled /\ call.u.Scheme = "git" /\ BbHint = "none"
    /\ \E k \in 1..Len(call.src.mb) : call.src.mb[k].kind = "hg"

\* C11: the error the vanity root future delivers is the error parseMetadata
\* ended with: the ambiguity error for more than one matching entry, the
\* not-found error for none, the fetch error when both GETs failed.
C11_RootErrorNamesReason ==
    (ret.root = "vanity" /\ rootU.pc = "done" /\ rootU.merr # "nil") =>
        /\ rootU.futerr = rootU.merr
        /\ \A o \in rootObs : o.err = rootU.merr

\* a reader of the root future got its error after parseMetadata found two
\* matching entries
C11_Reached ==
    /\ ret.root = "vanity" /\ rootU.pc = "done"
    /\ rootU.merr = ErrMultiple
    /\ rootObs # {}

\* the match of matcher m's pattern on p
RegexOf(m, p) ==
    CASE m = "github" -> ghRegex(p)
      [] m = "bitbucket" -> bbRegex(p)
      [] m = "gopkgin" -> gpinNewRegex(p)
      [] m = "launchpad" -> lpRegex(p)
      [] m = "launchpadGit" -> glpRegex(p)
      [] m = "jazz" -> jazzRegex(p)
      [] m = "apache" -> apacheRegex(p)
      [] m = "vcsExtension" -> vcsExtensionRegex(p)
      [] OTHER -> NoMatch
\* the sub-package group of a match, the last one of every pattern: "" or
\* "/sub/pkg"
SubGroup(v) == v[Len(v)]
\* what is left of s after its prefix r
After(s, r) == SubSeq(s, Len(r) + 1, Len(s))

\* C12: a root future of deduceFromPath that resolved without error holds a
\* prefix of the input path.  From a matcher, what follows the root in the
\* path is the pattern's sub-package group (empty, or "/" and the relative
\* package path); from vanity resolution the root is the Prefix of a
\* metadata entry.
C12_RootIsPrefix ==
    /\ (pc = "returned" /\ ret.root = "simple") =>
        /\ HasPrefix(path, ret.rootVal)
        /\ After(path, ret.rootVal) = SubGroup(RegexOf(call.m, path))
    /\ (ret.root = "vanity" /\ rootU.pc = "done" /\ rootU.futerr = "nil") =>
        /\ HasPrefix(path, rootU.importroot)
        /\ \E im \in MetaImports : im.Prefix = rootU.importroot
        /\ \A o \in rootObs : o = [val |-> rootU.importroot, err |-> "nil"]

\* deduceFromPath returned a root future for gopkg.in/user/pkg.v1/sub that
\* does not hold gopkg.in/user/pkg.v1
C12_Reached ==
    /\ pc = "returned" /\ ret.root = "simple"
    /\ path = <<"gopkg", ".", "in", "/", "user", "/", "pkg", ".", "v1", "/", "sub">>
    /\ ret.rootVal # <<"gopkg", ".", "in", "/", "user", "/", "pkg", ".", "v1">>

\* the kind of a single-kind matcher, and of the extension matcher on p:
\* the suffix its pattern captured
KindOf(m, p) ==
    CASE m \in {"github", "jazz", "apache", "launchpadGit", "gopkgin"} -> "git"
      [] m = "launchpad" -> "bzr"
      [] m = "vcsExtension" -> V(vcsExtensionRegex(p), 5)[1]
\* a matcher method was called on a path its pattern matches
Called(ms) == pc = "called" /\ call.m \in ms /\ RegexOf(call.m, path) # NoMatch

\* C13: deduceSource of GitHub, Jazz, Apache, Launchpad-Git (git), Launchpad
\* (bzr) and of the extension matcher (the suffix kind), called with an
\* explicit scheme, succeeds iff the scheme is in the kind's SchemeSet; on
\* success it yields one candidate of the kind with that scheme, on failure a
\* scheme error and no candidates.
C13_ExplicitSchemeValidated ==
    (/\ Called({"github", "jazz", "apache", "launchpadGit", "launchpad", "vcsExtension"})
     /\ call.u.Scheme # "") =>
        /\ ~call.src.panic
        /\ call.src.err = "nil" <=>
             call.u.Scheme \in Range(SchemesOf(KindOf(call.m, path)))
        /\ call.src.err = "nil" =>
             /\ Len(call.src.mb) = 1
             /\ call.src.mb[1].kind = KindOf(call.m, path)
             /\ call.src.mb[1].url.Scheme = call.u.Scheme
        /\ call.src.err # "nil" =>
             (call.src.err \in SchemeErrs /\ call.src.mb = <<>>)

\* the extension matcher was called on example.com/repo.svn with the scheme
\* https and failed
C13_Reached ==
    /\ Called({"vcsExtension"})
    /\ KindOf(call.m, path) = "svn"
    /\ call.u.Scheme = "https"
    /\ call.src.err # "nil"

DistinctURLs(mb) ==
    /\ \A k \in 1..Len(mb) : mb[k].ref # 0
    /\ \A j, k \in 1..Len(mb) : j # k => mb[j].ref # mb[k].ref

\* C15: deduceSource of GitHub, Jazz, Apache, gopkg.in (git) and Launchpad
\* (bzr) without explicit scheme, on a path of the matcher (for gopkg.in:
\* with a major version), yields one candidate of the kind per scheme of the
\* kind's SchemeSet, in SchemeSet order, each with a URL of its own.
C15_EnumerationInOrder ==
    (/\ Called({"github", "jazz", "apache", "gopkgin", "launchpad"})
     /\ call.u.Scheme = ""
     /\ ~(call.m = "gopkgin" /\ Contains(V(gpinNewRegex(path), 4), "."))) =>
        /\ call.src.err = "nil" /\ ~call.src.panic
        /\ KindsOf(call.src.mb) = Repeat(KindOf(call.m, path), 4)
        /\ SchemesIn(call.src.mb) =
             (IF call.m = "launchpad" THEN <<"https", "bzr+ssh", "bzr", "http">>
              ELSE <<"https", "ssh", "git", "http">>)
        /\ DistinctURLs(call.src.mb)

\* launchpadMatcher.deduceSource enumerated the four bzr schemes
C15_Reached ==
    /\ Called({"launchpad"}) /\ call.u.Scheme = ""
    /\ Len(call.src.mb) = 4
    /\ call.src.mb[2].url.Scheme = "bzr+ssh"

\* C16: vcsExtensionMatcher.deduceSource on a path with suffix git, hg or
\* bzr and no explicit scheme ends without run-time fault and yields one
\* candidate of the suffix kind per scheme of that kind's SchemeSet, in
\* SchemeSet order.
C16_ExtensionEnumeration ==
    (/\ Called({"vcsExtension"})
     /\ call.u.Scheme = ""
     /\ KindOf(call.m, path) \in {"git", "hg", "bzr"}) =>
        /\ ~call.src.panic
        /\ call.src.err = "nil"
        /\ KindsOf(call.src.mb) =
             Repeat(KindOf(call.m, path), Len(SchemesOf(KindOf(call.m, path))))
        /\ SchemesIn(call.src.mb) = SchemesOf(KindOf(call.m, path))

\* the call on example.com/repo.hg ended in a run-time fault
C16_Reached ==
    /\ Called({"vcsExtension"}) /\ call.u.Scheme = ""
    /\ KindOf(call.m, path) = "hg"
    /\ call.src.panic

\* C17: on a path whose matched extension is svn the extension matcher's
\* deduceRoot succeeds and its deduceSource yields svn candidates, as for
\* git, hg and bzr; "unknown repository type" is returned only for a suffix
\* outside git, hg, bzr, svn.
C17_ExtensionSupportsSvn ==
    Called({"vcsExtension"}) =>
        /\ call.root.err = "nil"
        /\ KindOf(call.m, path) = "svn" =>
             /\ call.src.err \notin {ErrUnknownType, ErrNoExt}
             /\ call.src.err = "nil" =>
                  (call.src.mb # <<>> /\ \A k \in 1..Len(call.src.mb) :
                                            call.src.mb[k].kind = "svn")
        /\ call.src.err = ErrUnknownType =>
             KindOf(call.m, path) \notin {"git", "hg", "bzr", "svn"}

\* deduceSource on example.com/repo.svn returned "unknown repository type"
\* after deduceRoot succeeded
C17_Reached ==
    /\ Called({"vcsExtension"})
    /\ KindOf(call.m, path) = "svn"
    /\ call.root.err = "nil"
    /\ call.src.err = ErrUnknownType

\* C18: launchpadGitMatcher.deduceSource without explicit scheme yields git
\* candidates with the schemes https, bzr+ssh, bzr, http, in that order; an
\* explicit scheme is accepted iff it is one of https, ssh, git, http, and
\* then is the scheme of the single git candidate.
C18_LaunchpadGitSchemes ==
    Called({"launchpadGit"}) =>
        IF call.u.Scheme = ""
        THEN /\ call.src.err = "nil"
             /\ KindsOf(call.src.mb) = Repeat("git", 4)
             /\ SchemesIn(call.src.mb) = <<"https", "bzr+ssh", "bzr", "http">>
        ELSE /\ call.src.err = "nil" <=> call.u.Scheme \in {"https", "ssh", "git", "http"}
             /\ call.src.err = "nil" =>
                  (KindsOf(call.src.mb) = <<"git">>
                     /\ SchemesIn(call.src.mb) = <<call.u.Scheme>>)
             /\ call.src.err # "nil" =>
                  (call.src.err = ErrGitScheme /\ call.src.mb = <<>>)

\* the explicit scheme bzr+ssh, which the enumeration produces, was rejected
C18_Reached ==
    /\ Called({"launchpadGit"})
    /\ call.u.Scheme = "bzr+ssh"
    /\ call.src.err = ErrGitScheme

\* C19: in one vanity deduction the first GET is the https one; the http GET
\* is issued iff the https GET failed; no third GET is issued; when both
\* failed the root future holds an error and nothing was parsed; when the
\* https GET succeeded its body is the one parsed.
C19_HttpsThenHttp ==
    /\ Len(gets) <= 2
    /\ gets # <<>> => (ret.root = "vanity" /\ gets[1].scheme = "https")
    /\ Len(gets) = 2 => (gets[2].scheme = "http" /\ ~gets[1].ok)
    /\ (ret.root = "vanity" /\ rootU.pc \in {"parse", "url", "done"}) =>
        /\ gets # <<>>
        /\ ~gets[1].ok => Len(gets) = 2
        /\ rootU.rc = (IF gets[1].ok THEN "https"
                       ELSE IF gets[2].ok THEN "http" ELSE "")
    /\ (ret.root = "vanity" /\ rootU.pc = "done") =>
        /\ rootU.parsed = rootU.rc
        /\ rootU.rc = "" =>
             (rootU.merr = ErrFetch /\ rootU.futerr # "nil"
                /\ \A o \in rootObs : o.err # "nil")

\* both GETs failed and a reader got the root future's error
C19_Reached ==
    /\ Len(gets) = 2 /\ ~gets[1].ok /\ ~gets[2].ok
    /\ rootU.pc = "done" /\ rootU.futerr # "nil"
    /\ rootObs # {}

\* C20: a resolved source future never holds (no source, no error): when
\* try failed (either path) or, in the vanity path, the kind is unsupported,
\* the future and every reader of it hold that error.
C20_UnitErrorDelivered ==
    \A i \in SrcIdx :
        srcs[i].pc = "done" =>
            /\ SrcGet(i) # [src |-> NoSource, err |-> "nil"]
            /\ (srcs[i].tries # <<>> /\ srcs[i].src = NoSource) =>
                 (SrcGet(i).err = ErrTry /\ \A o \in srcs[i].obs : o.err = ErrTry)
            /\ srcs[i].ierr \in {ErrTry, ErrUnsupported} =>
                 (SrcGet(i).err = srcs[i].ierr
                    /\ \A o \in srcs[i].obs : o.err = srcs[i].ierr)

\* a reader of a vanity source future got (no source, no error) after the
\* unit ended with "unsupported vcs type"
C20_Reached ==
    \E i \in SrcIdx :
        /\ srcs[i].kind = "vanity" /\ srcs[i].pc = "done"
        /\ srcs[i].ierr = ErrUnsupported
        /\ srcs[i].obs = {[src |-> NoSource, err |-> "nil"]}

\* C21: in the vanity path a source unit goes past root() only once the
\* metadata goroutine has finished; it is about to call try, or has called
\* it, only when that goroutine finished without error, and then the one
\* candidate it passes is of the kind the goroutine wrote to vcs, one of
\* git, bzr and hg, with the URL the goroutine wrote to ru, which is the
\* parse of the repo root it got from the metadata; this holds also for a
\* unit whose factory call came before the goroutine finished.
C21_TryAfterRootWrote ==
    \A i \in SrcIdx :
        srcs[i].kind = "vanity" =>
            /\ srcs[i].pc # "wait" => rootU.pc = "done"
            /\ srcs[i].pc = "wait" => srcs[i].tries = <<>>
            /\ (srcs[i].pc = "try" \/ srcs[i].tries # <<>>) =>
                /\ rootU.pc = "done" /\ rootU.futerr = "nil"
                /\ rootU.vcs \in {"git", "bzr", "hg"}
                /\ urlParse(rootU.reporoot).err = "nil"
                /\ rootU.ru = urlParse(rootU.reporoot).u
                /\ rootU.ru # NilURL
                /\ srcs[i].m = <<Maybe(rootU.vcs, rootU.ru)>>
            /\ srcs[i].tries # <<>> => srcs[i].tries = OwnTry(srcs[i])

\* a vanity source unit made while the metadata goroutine was still running
\* has called try
C21_Reached ==
    \E i \in SrcIdx :
        /\ srcs[i].kind = "vanity" /\ srcs[i].early
        /\ srcs[i].tries # <<>>

\* no future made so far is unresolved or has a reader still blocked: the
\* root future deduceFromPath returned and every source future a factory
\* call made are resolved and their readers have got the result
AllReleased ==
    /\ (pc = "returned" /\ ret.root # "nil") => (RootResolved /\ rootObs # {})
    /\ \A i \in SrcIdx : SrcResolved(i) /\ srcs[i].obs # {}

\* C22: with every goroutine and every blocked reader scheduled fairly and
\* every external call returning, every future that is ever made resolves
\* and its reader is released, whichever way its goroutine ends (fetch
\* failure, parse failure, bad repo URL, root failure seen by the source
\* goroutine, unsupported kind, try failure or success): again and again
\* the program is in a state where no future made so far is pending.  A
\* resolved future stays resolved, so this says of each future that it
\* resolves after it is made.
C22_FuturesResolve == []<>AllReleased

\* the metadata named a bad repo URL; the readers of the root future and of
\* two source futures, one failed on the root error and the other made by
\* a later factory call, were all released
C22_Reached ==
    /\ ret.root = "vanity" /\ rootU.futerr = ErrBadURL /\ rootObs # {}
    /\ Len(srcs) = 2
    /\ srcs[1].early /\ ~srcs[2].early
    /\ \A i \in SrcIdx : srcs[i].pc = "done" /\ srcs[i].obs # {}

====
